---- MODULE Spec2Model ----
(***************************************************************************)
(* A model of calsync / calimporter: the description codec (events.go),    *)
(* the reconciler getOperations and the Sync/Import run that applies its   *)
(* result to a google calendar (calimporter.go, calendar.go).              *)
(*                                                                         *)
(* Text is a sequence of one-character strings.  A time.Time is a number   *)
(* of ticks, SubSec ticks to the second; an RFC 3339 timestamp is a number *)
(* of whole seconds (the layout time.RFC3339 prints no fraction).          *)
(***************************************************************************)
EXTENDS Integers, Sequences, FiniteSets, TLC

(***************************************************************************)
(* Bounds of the model.                                                    *)
(***************************************************************************)
\* Texts of the codec specification are concatenations of at most MaxPieces pieces.
MaxPieces == 3

\* A second has SubSec ticks: a time.Time is finer than an RFC 3339 timestamp.
SubSec == 2

\* getOperations is handed at most MaxEvents events, calendar and source together.
MaxEvents == 4

\* Sync is handed at most MaxSyncLen events.
MaxSyncLen == 2

\* Sync is called at most MaxRuns times.
MaxRuns == 2

(***************************************************************************)
(* Text.                                                                   *)
(***************************************************************************)
NL == "\n"

\* const delim = "====================": DelimLen characters "=".
DelimLen == 20

delim == [i \in 1..DelimLen |-> "="]

\* Whether delim occurs in s at position i.
DelimAt(s, i) ==
    /\ i >= 1
    /\ i + DelimLen - 1 <= Len(s)
    /\ \A k \in 1..DelimLen : s[i + k - 1] = delim[k]

\* Whether s holds the delimiter somewhere (strings.Contains(s, delim)).
HasDelim(s) == \E i \in 1..Len(s) : DelimAt(s, i)

\* strings.Index(s, delim), one-based; 0 when delim does not occur.
IndexDelim(s) ==
    IF HasDelim(s)
    THEN CHOOSE i \in 1..Len(s) : DelimAt(s, i) /\ \A j \in 1..(i - 1) : ~DelimAt(s, j)
    ELSE 0

\* strings.SplitN(s, delim, 2): one token when delim is absent, else the
\* text before and the text after its first occurrence.
SplitN2(s) ==
    LET i == IndexDelim(s)
    IN  IF i = 0
        THEN <<s>>
        ELSE <<SubSeq(s, 1, i - 1), SubSeq(s, i + DelimLen, Len(s))>>

(***************************************************************************)
(* The description codec.                                                  *)
(***************************************************************************)
\* A mutant of parseDescription: the newline before the delimiter is kept.
parseDescriptionKeepsNewline(s) ==
    LET tokens == SplitN2(s)
    IN  IF Len(tokens) = 2
        THEN LET suffix == tokens[2]
             IN  [prefix |-> tokens[1],
                  suffix |-> IF Len(suffix) # 0 /\ suffix[1] = NL
                             THEN Tail(suffix) ELSE suffix]
        ELSE [prefix |-> <<>>, suffix |-> s]

parseDescription(s) ==
    LET tokens == SplitN2(s)
    IN  IF Len(tokens) = 2
        THEN LET prefix == tokens[1]
                 suffix == tokens[2]
                 l      == Len(prefix)
             IN  [prefix |-> IF l # 0 /\ prefix[l] = NL
                             THEN SubSeq(prefix, 1, l - 1) ELSE prefix,
                  suffix |-> IF Len(suffix) # 0 /\ suffix[1] = NL
                             THEN Tail(suffix) ELSE suffix]
        ELSE [prefix |-> <<>>, suffix |-> s]

\* A mutant of description.String: the delimiter is left out when there is
\* no prefix.
StringDropsDelim(d) ==
    IF d.prefix = <<>>
    THEN d.suffix
    ELSE d.prefix \o <<NL>> \o delim \o <<NL>> \o d.suffix

\* func (d *description) String() string
String(d) ==
    IF d.prefix = <<>>
    THEN delim \o <<NL>> \o d.suffix
    ELSE d.prefix \o <<NL>> \o delim \o <<NL>> \o d.suffix

\* func (ev *Event) exportedDescription() string
exportedDescription(ev) == String(parseDescription(ev.Description))

(***************************************************************************)
(* Time.                                                                   *)
(***************************************************************************)
\* t.Before(u)
Before(t, u) == t < u

\* t.Equal(u)
TimeEqual(t, u) == t = u

\* t.Format(time.RFC3339): the layout holds no fraction of a second, so the
\* timestamp names the whole second t lies in.
FormatRFC3339(t) == t \div SubSec

\* time.Parse(time.RFC3339, s)
ParseRFC3339(s) == s * SubSec

(***************************************************************************)
(* Events.                                                                 *)
(***************************************************************************)
\* type Event struct
Event(title, start, end, where, description, srcID, calEventID) ==
    [Title |-> title, Start |-> start, End |-> end, Where |-> where,
     Description |-> description, SrcID |-> srcID, calEventID |-> calEventID]

\* A mutant of equal: the whole description is compared, annotation included.
equalWholeDescription(ev, other) ==
    /\ ev.Title = other.Title
    /\ TimeEqual(ev.Start, other.Start)
    /\ TimeEqual(ev.End, other.End)
    /\ ev.Where = other.Where
    /\ ev.Description = other.Description
    /\ ev.SrcID = other.SrcID

\* func (ev *Event) equal(other *Event) bool
equal(ev, other) ==
    /\ ev.Title = other.Title
    /\ TimeEqual(ev.Start, other.Start)
    /\ TimeEqual(ev.End, other.End)
    /\ ev.Where = other.Where
    /\ parseDescription(ev.Description).suffix = parseDescription(other.Description).suffix
    /\ ev.SrcID = other.SrcID

\* A mutant of newUpdate: the description is rebuilt without the prefix of
\* the calendar's copy.
newUpdateDropsPrefix(ev, srcEv) ==
    [srcEv EXCEPT
        !.calEventID = ev.calEventID,
        !.Description = String([prefix |-> <<>>, suffix |-> srcEv.Description])]

\* func (ev *Event) newUpdate(srcEv *Event) *Event
newUpdate(ev, srcEv) ==
    [srcEv EXCEPT
        !.calEventID = ev.calEventID,
        !.Description = String([prefix |-> parseDescription(ev.Description).prefix,
                                suffix |-> srcEv.Description])]

(***************************************************************************)
(* The reconciler.                                                         *)
(***************************************************************************)
\* type Changes struct
Changes(deletes, updates, adds) ==
    [Deletes |-> deletes, Updates |-> updates, Adds |-> adds]

NoChanges == Changes(<<>>, <<>>, <<>>)

EmptyMap == [id \in {} |-> id]

\* A mutant of srcMapOf: events that have ended are kept.
RECURSIVE srcMapKeepsExpired(_, _)
srcMapKeepsExpired(now, srcEvents) ==
    IF srcEvents = <<>>
    THEN EmptyMap
    ELSE LET n  == Len(srcEvents)
             ev == srcEvents[n]
         IN  (ev.SrcID :> ev) @@ srcMapKeepsExpired(now, SubSeq(srcEvents, 1, n - 1))

\* A mutant of srcMapOf: of the events of one SrcID the first is kept.
RECURSIVE srcMapFirstWins(_, _)
srcMapFirstWins(now, srcEvents) ==
    IF srcEvents = <<>>
    THEN EmptyMap
    ELSE LET n    == Len(srcEvents)
             ev   == srcEvents[n]
             rest == srcMapFirstWins(now, SubSeq(srcEvents, 1, n - 1))
         IN  IF Before(ev.End, now) THEN rest ELSE rest @@ (ev.SrcID :> ev)

\* getOperations, first loop: srcMap holds, for each SrcID, the last event of
\* srcEvents that carries it and has not ended before now.
RECURSIVE srcMapOf(_, _)
srcMapOf(now, srcEvents) ==
    IF srcEvents = <<>>
    THEN EmptyMap
    ELSE LET n    == Len(srcEvents)
             ev   == srcEvents[n]
             rest == srcMapOf(now, SubSeq(srcEvents, 1, n - 1))
         IN  IF Before(ev.End, now) THEN rest ELSE (ev.SrcID :> ev) @@ rest

\* delete(srcMap, id)
MapDelete(m, id) == [k \in DOMAIN m \ {id} |-> m[k]]

\* A mutant of matchCalEvents: a matched source event stays in srcMap.
RECURSIVE matchCalEventsKeepsClaimed(_, _, _)
matchCalEventsKeepsClaimed(calEvents, srcMap, changes) ==
    IF calEvents = <<>>
    THEN [changes |-> changes, srcMap |-> srcMap]
    ELSE LET calEv == Head(calEvents)
         IN  IF calEv.SrcID \in DOMAIN srcMap
             THEN LET srcEv == srcMap[calEv.SrcID]
                  IN  matchCalEventsKeepsClaimed(
                          Tail(calEvents),
                          srcMap,
                          IF ~equal(srcEv, calEv)
                          THEN [changes EXCEPT !.Updates = Append(@, newUpdate(calEv, srcEv))]
                          ELSE changes)
             ELSE matchCalEventsKeepsClaimed(
                      Tail(calEvents),
                      srcMap,
                      [changes EXCEPT !.Deletes = Append(@, calEv)])

\* getOperations, second loop: every calendar event is matched to the source
\* event of its SrcID, which leaves srcMap, or is deleted.
RECURSIVE matchCalEvents(_, _, _)
matchCalEvents(calEvents, srcMap, changes) ==
    IF calEvents = <<>>
    THEN [changes |-> changes, srcMap |-> srcMap]
    ELSE LET calEv == Head(calEvents)
         IN  IF calEv.SrcID \in DOMAIN srcMap
             THEN LET srcEv == srcMap[calEv.SrcID]
                  IN  matchCalEvents(
                          Tail(calEvents),
                          MapDelete(srcMap, calEv.SrcID),
                          IF ~equal(srcEv, calEv)
                          THEN [changes EXCEPT !.Updates = Append(@, newUpdate(calEv, srcEv))]
                          ELSE changes)
             ELSE matchCalEvents(
                      Tail(calEvents),
                      srcMap,
                      [changes EXCEPT !.Deletes = Append(@, calEv)])

\* The orders in which a range over the map m may visit its values: the
\* iteration order of a Go map is unspecified.
RangeOrders(m) ==
    LET n == Cardinality(DOMAIN m)
    IN  {[i \in 1..n |-> m[keys[i]]] :
            keys \in {f \in [1..n -> DOMAIN m] : \A i, j \in 1..n : i # j => f[i] # f[j]}}

\* func getOperations(now time.Time, calEvents, srcEvents []*Event) *Changes:
\* the results it may return, one for each order of the third loop.
getOperations(now, calEvents, srcEvents) ==
    LET matched == matchCalEvents(calEvents, srcMapOf(now, srcEvents), NoChanges)
    IN  {[matched.changes EXCEPT !.Adds = adds] : adds \in RangeOrders(matched.srcMap)}

(***************************************************************************)
(* The texts the codec is checked on.                                      *)
(***************************************************************************)
Pieces == {<<"x">>, <<NL>>, <<"=">>, delim}

RECURSIVE Concats(_, _)
Concats(P, n) ==
    IF n = 0
    THEN {<<>>}
    ELSE LET S == Concats(P, n - 1) IN S \cup {s \o p : s \in S, p \in P}

Texts == Concats(Pieces, MaxPieces)

Annotations == {s \in Texts : ~HasDelim(s)}

(***************************************************************************)
(* The google calendar, as cal reads and writes it (calendar.go).          *)
(***************************************************************************)
\* func (c cal) makeCalEvent(ev *Event) *calendar.Event.  SrcID stands for
\* the private extended property c.idKey().
makeCalEvent(ev) ==
    [Summary     |-> ev.Title,
     Location    |-> ev.Where,
     Description |-> exportedDescription(ev),
     Start       |-> FormatRFC3339(ev.Start),
     End         |-> FormatRFC3339(ev.End),
     SrcID       |-> ev.SrcID]

\* An event as the calendar stores it: what makeCalEvent made, under the id
\* the calendar gave it.
Stored(calEvent, id) ==
    [Id |-> id, Summary |-> calEvent.Summary, Location |-> calEvent.Location,
     Description |-> calEvent.Description, Start |-> calEvent.Start,
     End |-> calEvent.End, SrcID |-> calEvent.SrcID]

\* func parseEvent(in *calendar.Event, idKey string) (*Event, error)
parseEvent(in) ==
    Event(in.Summary, ParseRFC3339(in.Start), ParseRFC3339(in.End),
          in.Location, in.Description, in.SrcID, in.Id)

\* func (c cal) fetch(ctx, now): the events of the calendar that end after
\* TimeMin(now.Format(time.RFC3339)), each through parseEvent.
fetch(cal, now) ==
    LET items == SelectSeq(cal, LAMBDA item : item.End > FormatRFC3339(now))
    IN  [i \in 1..Len(items) |-> parseEvent(items[i])]

\* Events.Delete(c.calID, id)
CalendarDelete(cal, id) == SelectSeq(cal, LAMBDA item : item.Id # id)

\* Events.Update(c.calID, id, calEvent)
CalendarUpdate(cal, id, calEvent) ==
    [i \in 1..Len(cal) |-> IF cal[i].Id = id THEN Stored(calEvent, id) ELSE cal[i]]

\* The id the calendar gives an inserted event: one no stored event carries.
FreshId(cal) ==
    CHOOSE id \in 1..(Len(cal) + 1) : \A i \in 1..Len(cal) : cal[i].Id # id

\* Events.Insert(c.calID, calEvent)
CalendarInsert(cal, calEvent) == Append(cal, Stored(calEvent, FreshId(cal)))

(***************************************************************************)
(* State.                                                                  *)
(***************************************************************************)
VARIABLES
    cPrefix,    \* codec: the annotation handed to description.String
    cSuffix,    \* codec: the managed text, also the raw text handed to exportedDescription
    cText,      \* codec: the last text produced
    cParsed,    \* codec: the last description parsed
    cExported,  \* codec: the result of the first export
    cStage,     \* codec: what has been applied so far
    now,        \* Sync: now := time.Now()
    srcEvents,  \* Sync: the events handed to Sync
    nop,        \* cal.nop
    calEvents,  \* Sync: what c.fetch returned
    fetchErr,   \* Sync: whether c.fetch returned an error
    changes,    \* Sync: what getOperations returned
    pc,         \* Sync: the statement the run is at
    idx,        \* Sync: the position of the running loop in its list
    result,     \* what the last Sync returned
    calendar,   \* the events the google calendar stores
    runs,       \* the Sync calls made so far
    settled,    \* the last Sync applied all its changes and the calendar is as it left it
    resync,     \* the running Sync repeats the last one: same srcEvents, same now
    calls       \* the calls of c.remove, c.update and c.add the running or last Sync made

codecVars == <<cPrefix, cSuffix, cText, cParsed, cExported, cStage>>

runVars == <<now, srcEvents, nop, calEvents, fetchErr, changes, pc, idx, result>>

worldVars == <<calendar, runs, settled, resync, calls>>

vars == <<codecVars, runVars, worldVars>>

NoDescription == [prefix |-> <<>>, suffix |-> <<>>]

\* An event that carries only a description.
DescriptionEvent(s) == [Description |-> s]

\* The codec's variables while the codec is not what is running.
CodecIdle ==
    /\ cPrefix = <<>>
    /\ cSuffix = <<>>
    /\ cText = <<>>
    /\ cParsed = NoDescription
    /\ cExported = <<>>
    /\ cStage = "off"

\* The state of a process in which Sync has not been called.
SyncIdle ==
    /\ now = 0
    /\ srcEvents = <<>>
    /\ nop = FALSE
    /\ calEvents = <<>>
    /\ fetchErr = FALSE
    /\ changes = NoChanges
    /\ pc = "idle"
    /\ idx = 0
    /\ result = "none"
    /\ calendar = <<>>
    /\ runs = 0
    /\ settled = FALSE
    /\ resync = FALSE
    /\ calls = <<>>

(***************************************************************************)
(* The codec applied to bounded inputs.                                    *)
(***************************************************************************)
CodecInit ==
    /\ cPrefix \in Annotations
    /\ cSuffix \in Texts
    /\ cText = <<>>
    /\ cParsed = NoDescription
    /\ cExported = <<>>
    /\ cStage = "input"
    /\ SyncIdle

\* s := d.String()
Serialize ==
    /\ cStage = "input"
    /\ cText' = String([prefix |-> cPrefix, suffix |-> cSuffix])
    /\ cStage' = "serialized"
    /\ UNCHANGED <<cPrefix, cSuffix, cParsed, cExported, runVars, worldVars>>

\* d = parseDescription(s)
Parse ==
    /\ cStage = "serialized"
    /\ cParsed' = parseDescription(cText)
    /\ cStage' = "parsed"
    /\ UNCHANGED <<cPrefix, cSuffix, cText, cExported, runVars, worldVars>>

\* ev.exportedDescription() of an event whose description is cSuffix
Export ==
    /\ cStage = "input"
    /\ cExported' = exportedDescription(DescriptionEvent(cSuffix))
    /\ cText' = cExported'
    /\ cStage' = "exported"
    /\ UNCHANGED <<cPrefix, cSuffix, cParsed, runVars, worldVars>>

\* ev.exportedDescription() of an event whose description is an exported one
ReExport ==
    /\ cStage = "exported"
    /\ cText' = exportedDescription(DescriptionEvent(cExported))
    /\ cStage' = "reexported"
    /\ UNCHANGED <<cPrefix, cSuffix, cParsed, cExported, runVars, worldVars>>

CodecNext == Serialize \/ Parse \/ Export \/ ReExport

SpecCodec == CodecInit /\ [][CodecNext]_vars

(***************************************************************************)
(* The inputs of Sync.                                                     *)
(***************************************************************************)
SrcIDs == {"s1", "s2"}

TextX == <<"x">>

TextY == <<"y">>

TextNote == <<"n", "o", "t", "e">>

\* A source description that holds the delimiter: "y" + delim + "x".
TextYDelimX == <<"y">> \o delim \o <<"x">>

\* The one time Sync is called at: a whole second.
SyncNows == {SubSec}

\* A source event that starts at n and lasts a second.
SyncBase(n, id) == Event("t1", n, n + SubSec, "w1", TextX, id, 0)

\* The source events Sync is handed: SyncBase for each SrcID; for the first
\* SrcID also with another title, a start that is not a whole second, and a
\* description that holds the delimiter.
SyncSrcEvents(n) ==
    {SyncBase(n, id) : id \in SrcIDs}
        \cup {[SyncBase(n, "s1") EXCEPT !.Title = "t2"],
              [SyncBase(n, "s1") EXCEPT !.Start = n + 1],
              [SyncBase(n, "s1") EXCEPT !.Description = TextYDelimX]}

\* The sequences of at most n elements of S.
SeqsUpTo(S, n) == UNION {[1..k -> S] : k \in 0..n}

SyncSrcLists == UNION {SeqsUpTo(SyncSrcEvents(n), MaxSyncLen) : n \in SyncNows}

(***************************************************************************)
(* Sync (calsync) / Import (calimporter).                                  *)
(***************************************************************************)
\* A call Sync made: c.remove(ctx, ev), c.update(ctx, ev) or c.add(ctx, ev),
\* and whether it returned an error.
Call(op, ev, failed) == [op |-> op, ev |-> ev, err |-> failed]

\* Where the run stands when loop `phase` is at position k of its list: in
\* that loop, or in the first later loop that has something to do, or at
\* the final return.
RECURSIVE LoopAt(_, _, _)
LoopAt(c, phase, k) ==
    IF phase = "deletes"
    THEN IF k <= Len(c.Deletes) THEN <<"deletes", k>> ELSE LoopAt(c, "updates", 1)
    ELSE IF phase = "updates"
    THEN IF k <= Len(c.Updates) THEN <<"updates", k>> ELSE LoopAt(c, "adds", 1)
    ELSE IF k <= Len(c.Adds) THEN <<"adds", k>> ELSE <<"return", 0>>

\* changes := getOperations(now, calEvents, srcEvents)
ComputeOperations ==
    /\ pc = "ops"
    /\ \E c \in getOperations(now, calEvents, srcEvents) :
          /\ changes' = c
          /\ pc' = LoopAt(c, "deletes", 1)[1]
          /\ idx' = LoopAt(c, "deletes", 1)[2]
    /\ UNCHANGED <<now, srcEvents, nop, calEvents, fetchErr, result, codecVars, worldVars>>

\* The run moves on from position idx of loop pc.
Continue ==
    /\ pc' = LoopAt(changes, pc, idx + 1)[1]
    /\ idx' = LoopAt(changes, pc, idx + 1)[2]
    /\ UNCHANGED result

\* A mutant of Abort: the error of a call is dropped and the run moves on.
AbortKeepsGoing ==
    /\ pc' = LoopAt(changes, pc, idx + 1)[1]
    /\ idx' = LoopAt(changes, pc, idx + 1)[2]
    /\ UNCHANGED result

\* return nil, err
Abort ==
    /\ pc' = "idle"
    /\ idx' = 0
    /\ result' = "error"

\* Sync(ctx, client, scope, srcEvents, opts...) up to c.fetch: now is read,
\* newCal makes the cal (or fails, and Sync returns) and the options are applied.
SyncCall ==
    /\ pc = "idle"
    /\ runs < MaxRuns
    /\ \E src \in SyncSrcLists, n \in SyncNows, dry \in BOOLEAN, ok \in BOOLEAN :
          /\ resync' = (ok /\ settled /\ src = srcEvents /\ n = now /\ ~dry)
          /\ srcEvents' = src
          /\ now' = n
          /\ nop' = dry
          /\ IF ok
             THEN pc' = "fetch" /\ result' = "running"
             ELSE pc' = "idle" /\ result' = "error"
    /\ runs' = runs + 1
    /\ settled' = FALSE
    /\ calEvents' = <<>>
    /\ fetchErr' = FALSE
    /\ changes' = NoChanges
    /\ idx' = 0
    /\ calls' = <<>>
    /\ UNCHANGED <<calendar, codecVars>>

\* calEvents, err := c.fetch(ctx, now): the error is assigned and not looked
\* at; on an error calEvents is nil.
Fetch ==
    /\ pc = "fetch"
    /\ \E ok \in BOOLEAN :
          /\ calEvents' = IF ok THEN fetch(calendar, now) ELSE <<>>
          /\ fetchErr' = ~ok
    /\ pc' = "ops"
    /\ UNCHANGED <<now, srcEvents, nop, changes, idx, result, codecVars, worldVars>>

\* One turn of the first loop: c.remove(ctx, ev)
Remove ==
    /\ pc = "deletes"
    /\ LET ev == changes.Deletes[idx]
       IN  \/ /\ nop
              /\ calls' = Append(calls, Call("remove", ev, FALSE))
              /\ Continue
              /\ UNCHANGED calendar
           \/ /\ ~nop
              /\ calls' = Append(calls, Call("remove", ev, FALSE))
              /\ calendar' = CalendarDelete(calendar, ev.calEventID)
              /\ Continue
           \/ /\ ~nop
              /\ calls' = Append(calls, Call("remove", ev, TRUE))
              /\ Abort
              /\ UNCHANGED calendar
    /\ UNCHANGED <<now, srcEvents, nop, calEvents, fetchErr, changes, codecVars,
                   runs, settled, resync>>

\* One turn of the second loop: c.update(ctx, u)
Update ==
    /\ pc = "updates"
    /\ LET u == changes.Updates[idx]
       IN  \/ /\ nop
              /\ calls' = Append(calls, Call("update", u, FALSE))
              /\ Continue
              /\ UNCHANGED calendar
           \/ /\ ~nop
              /\ calls' = Append(calls, Call("update", u, FALSE))
              /\ calendar' = CalendarUpdate(calendar, u.calEventID, makeCalEvent(u))
              /\ Continue
           \/ /\ ~nop
              /\ calls' = Append(calls, Call("update", u, TRUE))
              /\ Abort
              /\ UNCHANGED calendar
    /\ UNCHANGED <<now, srcEvents, nop, calEvents, fetchErr, changes, codecVars,
                   runs, settled, resync>>

\* One turn of the third loop: c.add(ctx, ev)
Add ==
    /\ pc = "adds"
    /\ LET ev == changes.Adds[idx]
       IN  \/ /\ nop
              /\ calls' = Append(calls, Call("add", ev, FALSE))
              /\ Continue
              /\ UNCHANGED calendar
           \/ /\ ~nop
              /\ calls' = Append(calls, Call("add", ev, FALSE))
              /\ calendar' = CalendarInsert(calendar, makeCalEvent(ev))
              /\ Continue
           \/ /\ ~nop
              /\ calls' = Append(calls, Call("add", ev, TRUE))
              /\ Abort
              /\ UNCHANGED calendar
    /\ UNCHANGED <<now, srcEvents, nop, calEvents, fetchErr, changes, codecVars,
                   runs, settled, resync>>

\* return changes, nil
Return ==
    /\ pc = "return"
    /\ pc' = "idle"
    /\ idx' = 0
    /\ result' = "changes"
    /\ settled' = (~nop /\ ~fetchErr)
    /\ UNCHANGED <<now, srcEvents, nop, calEvents, fetchErr, changes, codecVars,
                   calendar, runs, resync, calls>>

\* Between two runs a user of google calendar puts a note before the
\* delimiter of a stored event that has none.
Annotate ==
    /\ pc = "idle"
    /\ \E i \in 1..Len(calendar) :
          LET text == calendar[i].Description
              at   == IndexDelim(text)
          IN  /\ at = 1
              /\ calendar' = [calendar EXCEPT
                     ![i].Description = TextNote \o <<NL>> \o text]
    /\ settled' = FALSE
    /\ UNCHANGED <<runVars, codecVars, runs, resync, calls>>

Init == CodecIdle /\ SyncIdle

Next ==
    \/ SyncCall
    \/ Fetch
    \/ ComputeOperations
    \/ Remove
    \/ Update
    \/ Add
    \/ Return
    \/ Annotate

Spec == Init /\ [][Next]_vars

(***************************************************************************)
(* getOperations applied to bounded inputs.                                *)
(***************************************************************************)
\* The one time getOperations is called at: a whole second.
OpsNows == {2 * SubSec}

\* A source event that ends after n.
SrcBase(n, id) == Event("t1", n, n + 1, "w1", TextX, id, 0)

\* The source events getOperations is handed: SrcBase and what differs from
\* it in one field, more of them for the first SrcID.
OpsSrcEvents(n) ==
    {SrcBase(n, "s1"),
     [SrcBase(n, "s1") EXCEPT !.Title = "t2"],
     [SrcBase(n, "s1") EXCEPT !.Description = TextY],
     [SrcBase(n, "s1") EXCEPT !.Description = TextYDelimX],
     [SrcBase(n, "s1") EXCEPT !.End = n],
     [SrcBase(n, "s1") EXCEPT !.End = n - 1],
     SrcBase(n, "s2"),
     [SrcBase(n, "s2") EXCEPT !.Description = TextY],
     [SrcBase(n, "s2") EXCEPT !.End = n - 1]}

\* The calendar's copy of SrcBase, as makeCalEvent wrote it.
CalBase(n, id) ==
    [SrcBase(n, id) EXCEPT !.Description = exportedDescription(SrcBase(n, id))]

\* The calendar events getOperations is handed, calEventID apart: CalBase
\* and what differs from it in one field (more of them for the first SrcID);
\* a description with a note before the delimiter, or with no delimiter.
OpsCalEvents(n) ==
    {CalBase(n, "s1"),
     [CalBase(n, "s1") EXCEPT !.Title = "t2"],
     [CalBase(n, "s1") EXCEPT
         !.Description = String([prefix |-> TextNote, suffix |-> TextX])],
     [CalBase(n, "s1") EXCEPT !.Description = TextX],
     [CalBase(n, "s1") EXCEPT !.End = n],
     [CalBase(n, "s1") EXCEPT !.End = n - 1],
     CalBase(n, "s2"),
     [CalBase(n, "s2") EXCEPT
         !.Description = String([prefix |-> TextNote, suffix |-> TextX])],
     [CalBase(n, "s2") EXCEPT !.End = n - 1]}

\* calEvents with the ids the calendar gave them: each its own.
WithCalEventIDs(evs) == [i \in 1..Len(evs) |-> [evs[i] EXCEPT !.calEventID = i]]

OpsInit ==
    /\ CodecIdle
    /\ now \in OpsNows
    /\ calEvents \in {WithCalEventIDs(evs) : evs \in SeqsUpTo(OpsCalEvents(now), MaxEvents)}
    /\ srcEvents \in SeqsUpTo(OpsSrcEvents(now), MaxEvents - Len(calEvents))
    /\ nop = FALSE
    /\ fetchErr = FALSE
    /\ changes = NoChanges
    /\ pc = "ops"
    /\ idx = 0
    /\ result = "none"
    /\ calendar = <<>>
    /\ runs = 0
    /\ settled = FALSE
    /\ resync = FALSE
    /\ calls = <<>>

OpsNext == ComputeOperations

SpecOps == OpsInit /\ [][OpsNext]_vars

(***************************************************************************)
(* One call of Sync against a calendar that holds events already.          *)
(***************************************************************************)
\* What the calendar may hold when Sync is called, ids apart: what add wrote
\* for SyncBase of each SrcID, for the first SrcID under another title too,
\* and for an event of the second SrcID that ended before n.
RunStored(n) ==
    {makeCalEvent(SyncBase(n, "s1")),
     makeCalEvent([SyncBase(n, "s1") EXCEPT !.Title = "t2"]),
     makeCalEvent(SyncBase(n, "s2")),
     makeCalEvent([SyncBase(n, "s2") EXCEPT !.End = n - 1])}

\* items as the calendar stores them: each under its own id.
WithIds(items) == [i \in 1..Len(items) |-> Stored(items[i], i)]

\* Sync has been called and newCal has made the cal: c.fetch is next.
RunInit ==
    /\ CodecIdle
    /\ now \in SyncNows
    /\ calendar \in {WithIds(items) : items \in SeqsUpTo(RunStored(now), MaxEvents)}
    /\ srcEvents \in SeqsUpTo(SyncSrcEvents(now), MaxEvents - Len(calendar))
    /\ nop \in BOOLEAN
    /\ calEvents = <<>>
    /\ fetchErr = FALSE
    /\ changes = NoChanges
    /\ pc = "fetch"
    /\ idx = 0
    /\ result = "running"
    /\ runs = 1
    /\ settled = FALSE
    /\ resync = FALSE
    /\ calls = <<>>

RunNext ==
    \/ Fetch
    \/ ComputeOperations
    \/ Remove
    \/ Update
    \/ Add
    \/ Return

SpecRun == RunInit /\ [][RunNext]_vars

(***************************************************************************)
(* Claims about the codec.                                                 *)
(***************************************************************************)

(***************************************************************************)
(* C9.  Codec round trip: for an annotation a that holds no delimiter and  *)
(* any managed text m, parseDescription(description{a, m}.String()) has    *)
(* prefix a and suffix m.                                                  *)
(***************************************************************************)
C9_RoundTrip ==
    cStage = "parsed" => cParsed = [prefix |-> cPrefix, suffix |-> cSuffix]

\* A round trip of an annotation that ends in a newline and of a managed
\* text that starts with one and holds the delimiter.
C9_Witness ==
    /\ cStage = "parsed"
    /\ cPrefix = <<"x", NL>>
    /\ cSuffix = <<NL>> \o delim \o <<"x">>
    /\ cParsed = [prefix |-> cPrefix, suffix |-> cSuffix]

(***************************************************************************)
(* C10.  Export is idempotent and always yields the delimiter: exporting   *)
(* an exported description returns it unchanged, and an exported           *)
(* description holds the delimiter.                                        *)
(***************************************************************************)
C10_ExportIdempotent ==
    /\ cStage \in {"exported", "reexported"} => HasDelim(cExported)
    /\ cStage = "reexported" => cText = cExported

\* The export of a text that holds no delimiter, exported again.
C10_Witness ==
    /\ cStage = "reexported"
    /\ cSuffix = <<"x">>
    /\ cExported = delim \o <<NL, "x">>
    /\ cText = cExported

(***************************************************************************)
(* Claims about getOperations.                                             *)
(***************************************************************************)
\* getOperations has returned in the running call of Sync.
Computed == pc \in {"deletes", "updates", "adds", "return"}

\* ev had not ended at now.
NonExpired(ev) == ~Before(ev.End, now)

\* calEvents[i] is the first calendar event of its SrcID.
CalFirst(i) ==
    \A i2 \in 1..(i - 1) : calEvents[i2].SrcID # calEvents[i].SrcID

\* srcEvents[j] has not ended, and no later source event of its SrcID that
\* has not ended follows it.
SrcLast(j) ==
    /\ NonExpired(srcEvents[j])
    /\ \A j2 \in (j + 1)..Len(srcEvents) :
          ~(NonExpired(srcEvents[j2]) /\ srcEvents[j2].SrcID = srcEvents[j].SrcID)

\* calEvents[i] is matched to srcEvents[j].
Matched(i, j) ==
    /\ calEvents[i].SrcID = srcEvents[j].SrcID
    /\ CalFirst(i)
    /\ SrcLast(j)

\* r and d are the same in title, start, end, location, SrcID and managed
\* description.
SameButAnnotation(r, d) ==
    /\ r.Title = d.Title
    /\ r.Start = d.Start
    /\ r.End = d.End
    /\ r.Where = d.Where
    /\ r.SrcID = d.SrcID
    /\ parseDescription(r.Description).suffix = parseDescription(d.Description).suffix

\* The updates of changes that are for calEvents[i].
UpdatesOf(i) ==
    {k \in 1..Len(changes.Updates) :
        changes.Updates[k].calEventID = calEvents[i].calEventID}

\* The deletes of changes that are for calEvents[i].
DeletesOf(i) ==
    {k \in 1..Len(changes.Deletes) :
        changes.Deletes[k].calEventID = calEvents[i].calEventID}

\* The adds of changes that carry the SrcID id.
AddsOf(id) == {k \in 1..Len(changes.Adds) : changes.Adds[k].SrcID = id}

\* srcEvents[j] is in Adds.
Added(j) == \E k \in 1..Len(changes.Adds) : changes.Adds[k] = srcEvents[j]

\* An update of changes carries what srcEvents[j] holds.
Updating(j) ==
    \E k \in 1..Len(changes.Updates) :
        LET u == changes.Updates[k]
            d == srcEvents[j]
        IN  /\ u.SrcID = d.SrcID
            /\ u.Title = d.Title
            /\ u.Start = d.Start
            /\ u.End = d.End
            /\ u.Where = d.Where
            /\ parseDescription(u.Description).suffix = d.Description

(***************************************************************************)
(* C2.  Annotation preservation: an update for a calendar event r matched  *)
(* to a source event d has the description                                 *)
(* description{parseDescription(r.Description).prefix, d.Description}      *)
(* .String(): parsed, it has the prefix of r's description and the whole   *)
(* of d's description as its suffix.                                       *)
(***************************************************************************)
C2_AnnotationPreserved ==
    Computed =>
        \A i \in 1..Len(calEvents), j \in 1..Len(srcEvents) :
            Matched(i, j) =>
                \A k \in UpdatesOf(i) :
                    LET u == changes.Updates[k]
                        r == calEvents[i]
                        d == srcEvents[j]
                    IN  /\ u.Description =
                              String([prefix |-> parseDescription(r.Description).prefix,
                                      suffix |-> d.Description])
                        /\ parseDescription(u.Description).prefix =
                              parseDescription(r.Description).prefix
                        /\ parseDescription(u.Description).suffix = d.Description

\* An update of a calendar event that carries a note, for a source event
\* with another description.
C2_Witness ==
    /\ Computed
    /\ \E i \in 1..Len(calEvents), j \in 1..Len(srcEvents) :
          /\ Matched(i, j)
          /\ parseDescription(calEvents[i].Description).prefix = TextNote
          /\ srcEvents[j].Description = TextY
          /\ \E k \in UpdatesOf(i) :
                changes.Updates[k].Description =
                    TextNote \o <<NL>> \o delim \o <<NL>> \o TextY

(***************************************************************************)
(* C3.  An edit of the annotation alone never triggers an update: for a    *)
(* calendar event that is the same as its matched source event in title,   *)
(* start, end, location, SrcID and managed text, whatever stands before    *)
(* the delimiter, there is no update, no delete and no add.                *)
(***************************************************************************)
C3_AnnotationEditIsNoOp ==
    Computed =>
        \A i \in 1..Len(calEvents), j \in 1..Len(srcEvents) :
            (Matched(i, j) /\ SameButAnnotation(calEvents[i], srcEvents[j])) =>
                /\ UpdatesOf(i) = {}
                /\ DeletesOf(i) = {}
                /\ AddsOf(srcEvents[j].SrcID) = {}

\* A calendar event with a note before the delimiter, matched to the source
\* event it was written from.
C3_Witness ==
    /\ Computed
    /\ \E i \in 1..Len(calEvents), j \in 1..Len(srcEvents) :
          /\ Matched(i, j)
          /\ SameButAnnotation(calEvents[i], srcEvents[j])
          /\ parseDescription(calEvents[i].Description).prefix = TextNote
          /\ parseDescription(srcEvents[j].Description).prefix = <<>>
          /\ UpdatesOf(i) = {}

(***************************************************************************)
(* C4.  A change of the source description always triggers an update: for  *)
(* a calendar event r written from the source description m, matched to a  *)
(* source event whose description m2 is not m (and r was not written from  *)
(* m2), Updates holds exactly one update for r.                            *)
(***************************************************************************)
\* The descriptions source events carry.
SrcTexts == {TextX, TextY, TextYDelimX}

\* The description of r is what add writes for the source description m, or
\* what update writes for it, whatever the annotation.
WrittenFrom(r, m) ==
    \/ r.Description = exportedDescription(DescriptionEvent(m))
    \/ r.Description =
          String([prefix |-> parseDescription(r.Description).prefix, suffix |-> m])

C4_SourceChangeUpdates ==
    Computed =>
        \A i \in 1..Len(calEvents), j \in 1..Len(srcEvents) :
            LET r == calEvents[i]
                d == srcEvents[j]
            IN  (/\ Matched(i, j)
                 /\ \E m \in SrcTexts : m # d.Description /\ WrittenFrom(r, m)
                 /\ ~WrittenFrom(r, d.Description))
                    => Cardinality(UpdatesOf(i)) = 1

(***************************************************************************)
(* C5.  No-op stability: reconciling calendar events against source events *)
(* that are the same, one for one, in title, start, end, location, SrcID   *)
(* and managed description, none of which has ended before now and no two  *)
(* of which share a SrcID, yields empty Deletes, Updates and Adds.         *)
(***************************************************************************)
\* The bijections of 1..n.
Bijections(n) == {f \in [1..n -> 1..n] : \A a, b \in 1..n : a # b => f[a] # f[b]}

\* calEvents and srcEvents are the same set of events, annotations apart.
Identical ==
    /\ Len(calEvents) = Len(srcEvents)
    /\ \E f \in Bijections(Len(calEvents)) :
          \A i \in 1..Len(calEvents) : SameButAnnotation(calEvents[i], srcEvents[f[i]])

C5_NoOpStabilityLive ==
    (/\ Computed
     /\ Identical
     /\ \A i \in 1..Len(calEvents) : NonExpired(calEvents[i])
     /\ \A i \in 1..Len(calEvents) : CalFirst(i))
        => changes = NoChanges

\* C5 as the specification states it: for any identical sets.
C5_NoOpStability == (Computed /\ Identical) => changes = NoChanges

\* Two identical events, the calendar's with a note, and nothing to do.
C5_Witness ==
    /\ Computed
    /\ Identical
    /\ Len(calEvents) = 2
    /\ calEvents[1].SrcID # calEvents[2].SrcID
    /\ \A i \in 1..Len(calEvents) :
          /\ NonExpired(calEvents[i])
          /\ parseDescription(calEvents[i].Description).prefix = TextNote
    /\ changes = NoChanges

(***************************************************************************)
(* C6.  Partition totality: each calendar event falls in exactly one of    *)
(* unchanged, Updates and Deletes; each source event that has not ended    *)
(* and is the last such of its SrcID falls in exactly one of unchanged,    *)
(* Updates and Adds.                                                       *)
(***************************************************************************)
\* How many of the three hold.
CountTrue(a, b, c) ==
    (IF a THEN 1 ELSE 0) + (IF b THEN 1 ELSE 0) + (IF c THEN 1 ELSE 0)

\* calEvents[i] was found the same as the source event it is matched to.
CalUnchanged(i) ==
    \E j \in 1..Len(srcEvents) :
        Matched(i, j) /\ SameButAnnotation(calEvents[i], srcEvents[j])

\* srcEvents[j] was found the same as the calendar event it is matched to.
SrcUnchanged(j) ==
    \E i \in 1..Len(calEvents) :
        Matched(i, j) /\ SameButAnnotation(calEvents[i], srcEvents[j])

CalBuckets(i) == CountTrue(CalUnchanged(i), UpdatesOf(i) # {}, DeletesOf(i) # {})

SrcBuckets(j) == CountTrue(SrcUnchanged(j), Updating(j), Added(j))

\* No operation is listed twice.
NoRepeats ==
    /\ \A i \in 1..Len(calEvents) :
          Cardinality(UpdatesOf(i)) <= 1 /\ Cardinality(DeletesOf(i)) <= 1
    /\ \A id \in SrcIDs : Cardinality(AddsOf(id)) <= 1

C6_PartitionOfMatched ==
    Computed =>
        /\ \A i \in 1..Len(calEvents) : CalBuckets(i) = 1
        /\ \A j \in 1..Len(srcEvents) : SrcLast(j) => SrcBuckets(j) = 1
        /\ NoRepeats

\* C6 as the specification states it: for every source event that has not ended.
C6_PartitionTotality ==
    Computed =>
        /\ \A i \in 1..Len(calEvents) : CalBuckets(i) = 1
        /\ \A j \in 1..Len(srcEvents) : NonExpired(srcEvents[j]) => SrcBuckets(j) = 1

\* One calendar event deleted, one updated, one source event added.
C6_Witness ==
    /\ Computed
    /\ Len(changes.Deletes) = 1
    /\ Len(changes.Updates) = 1
    /\ Len(changes.Adds) = 1
    /\ \A i \in 1..Len(calEvents) : CalBuckets(i) = 1
    /\ \A j \in 1..Len(srcEvents) : SrcBuckets(j) = 1

(***************************************************************************)
(* C7.  Deletes holds exactly the calendar events with no match: a         *)
(* calendar event is in Deletes if and only if no source event that has    *)
(* not ended carries its SrcID, or an earlier calendar event carries its   *)
(* SrcID; a source event that has ended does not prevent the delete.       *)
(***************************************************************************)
\* A source event that has not ended carries the SrcID of calEvents[i].
HasLiveSource(i) ==
    \E j \in 1..Len(srcEvents) :
        NonExpired(srcEvents[j]) /\ srcEvents[j].SrcID = calEvents[i].SrcID

C7_DeletesUnmatched ==
    Computed =>
        \A i \in 1..Len(calEvents) :
            (DeletesOf(i) # {}) <=> (~HasLiveSource(i) \/ ~CalFirst(i))

\* C7 as the specification states it: the SrcID alone decides.
C7_DeletesExactly ==
    Computed =>
        \A i \in 1..Len(calEvents) : (DeletesOf(i) # {}) <=> ~HasLiveSource(i)

\* A calendar event deleted though a source event, which has ended, carries
\* its SrcID.
C7_Witness ==
    /\ Computed
    /\ \E i \in 1..Len(calEvents), j \in 1..Len(srcEvents) :
          /\ srcEvents[j].SrcID = calEvents[i].SrcID
          /\ ~NonExpired(srcEvents[j])
          /\ CalFirst(i)
          /\ DeletesOf(i) # {}

(***************************************************************************)
(* C8.  Only source events that have not ended before now take part: a     *)
(* source event whose end is before now is never in Adds, never causes an  *)
(* update and never keeps a calendar event from deletion; a source event   *)
(* whose end is now takes part like one that ends later.                   *)
(***************************************************************************)
\* Every source event of the SrcID of calEvents[i] ends before t.
AllSourcesEndBefore(i, t) ==
    \A j \in 1..Len(srcEvents) :
        srcEvents[j].SrcID = calEvents[i].SrcID => srcEvents[j].End < t

C8_EndedTakeNoPart ==
    Computed =>
        /\ \A j \in 1..Len(srcEvents) :
              srcEvents[j].End < now => ~Added(j) /\ ~Updating(j)
        /\ \A i \in 1..Len(calEvents) :
              AllSourcesEndBefore(i, now) => DeletesOf(i) # {}
        /\ \A j \in 1..Len(srcEvents) :
              (/\ srcEvents[j].End = now
               /\ SrcLast(j)
               /\ \A i \in 1..Len(calEvents) : calEvents[i].SrcID # srcEvents[j].SrcID)
                  => Added(j)

\* C8 as the specification states it: an end equal to now is dropped too.
C8_OnlyStrictlyAfterNow ==
    Computed =>
        /\ \A j \in 1..Len(srcEvents) :
              srcEvents[j].End <= now => ~Added(j) /\ ~Updating(j)
        /\ \A i \in 1..Len(calEvents) :
              AllSourcesEndBefore(i, now + 1) => DeletesOf(i) # {}

\* A source event that ends at now is added; one that ended before now is
\* not, and the calendar event of its SrcID is deleted.
C8_Witness ==
    /\ Computed
    /\ \E j \in 1..Len(srcEvents) : srcEvents[j].End = now /\ Added(j)
    /\ \E j \in 1..Len(srcEvents), i \in 1..Len(calEvents) :
          /\ srcEvents[j].End < now
          /\ srcEvents[j].SrcID = calEvents[i].SrcID
          /\ DeletesOf(i) # {}

(***************************************************************************)
(* C11.  Duplicate SrcID is resolved last-write-wins among the source      *)
(* events that have not ended before now: of the source events of one      *)
(* SrcID the last that has not ended is the one matched, compared, used    *)
(* for the update and added, and no earlier source event of that SrcID     *)
(* that differs from it is in Adds or carried by an update.                *)
(***************************************************************************)
\* No later source event carries the SrcID of srcEvents[j].
SrcLastOfAll(j) ==
    \A j2 \in (j + 1)..Len(srcEvents) : srcEvents[j2].SrcID # srcEvents[j].SrcID

\* The source events before srcEvents[j] that carry its SrcID and differ
\* from it.
EarlierOf(j) ==
    {j0 \in 1..(j - 1) :
        srcEvents[j0].SrcID = srcEvents[j].SrcID /\ srcEvents[j0] # srcEvents[j]}

\* The update k is for the calendar event r and carries what d holds.
UpdateFrom(k, r, d) ==
    LET u == changes.Updates[k]
    IN  /\ u.calEventID = r.calEventID
        /\ u.SrcID = d.SrcID
        /\ u.Title = d.Title
        /\ u.Start = d.Start
        /\ u.End = d.End
        /\ u.Where = d.Where
        /\ parseDescription(u.Description).suffix = d.Description

\* srcEvents[j] is the event of its SrcID that getOperations used: the first
\* calendar event of the SrcID is compared with it, and updated from it when
\* they differ; with no calendar event of the SrcID, it is added, once.
UsedFor(j) ==
    LET d      == srcEvents[j]
        firsts == {i \in 1..Len(calEvents) : calEvents[i].SrcID = d.SrcID /\ CalFirst(i)}
    IN  /\ firsts = {} => (Added(j) /\ Cardinality(AddsOf(d.SrcID)) = 1)
        /\ \A i \in firsts :
              /\ AddsOf(d.SrcID) = {}
              /\ IF SameButAnnotation(calEvents[i], d)
                 THEN UpdatesOf(i) = {}
                 ELSE \E k \in 1..Len(changes.Updates) :
                         UpdatesOf(i) = {k} /\ UpdateFrom(k, calEvents[i], d)

\* srcEvents[j0] is in no bucket of changes.
InNoBucket(j0) ==
    /\ ~Added(j0)
    /\ ~Updating(j0)
    /\ \A k \in 1..Len(changes.Deletes) : changes.Deletes[k] # srcEvents[j0]

C11_LastLiveWins ==
    Computed =>
        \A j \in 1..Len(srcEvents) :
            SrcLast(j) => (UsedFor(j) /\ \A j0 \in EarlierOf(j) : InNoBucket(j0))

\* C11 as the specification states it: the later of the list, ended or not.
C11_LastWriteWins ==
    Computed =>
        \A j \in 1..Len(srcEvents) :
            (SrcLastOfAll(j) /\ EarlierOf(j) # {}) =>
                (UsedFor(j) /\ \A j0 \in EarlierOf(j) : InNoBucket(j0))

\* Two source events of one SrcID with different titles, neither ended: the
\* calendar event of the SrcID is updated from the later one.
C11_Witness ==
    /\ Computed
    /\ \E j \in 1..Len(srcEvents), i \in 1..Len(calEvents) :
          /\ SrcLast(j)
          /\ Matched(i, j)
          /\ \E j0 \in EarlierOf(j) :
                /\ NonExpired(srcEvents[j0])
                /\ srcEvents[j0].Title # srcEvents[j].Title
                /\ ~Updating(j0)
          /\ \E k \in UpdatesOf(i) : UpdateFrom(k, calEvents[i], srcEvents[j])
          /\ AddsOf(srcEvents[j].SrcID) = {}

(***************************************************************************)
(* Claims about Sync.                                                      *)
(***************************************************************************)
(***************************************************************************)
(* C1.  Re-sync is a no-op: when a run of Sync has applied every delete,   *)
(* update and add it computed and the calendar is not modified otherwise,  *)
(* a second run with the same source events and the same now computes      *)
(* empty Deletes, Updates and Adds.                                        *)
(***************************************************************************)
C1_ResyncIsNoOp ==
    (resync /\ ~fetchErr /\ Computed) => changes = NoChanges

(***************************************************************************)
(* C12.  Sync applies the computed operations one after the other, all     *)
(* deletes, then all updates, then all adds, and aborts on the first       *)
(* failure: the calls made are a prefix of Deletes ++ Updates ++ Adds;     *)
(* while the run goes on none of them has failed and the next call is the  *)
(* next of that list; a run that returned an error from a call stopped at  *)
(* that call, the only one that failed, and returned no Changes; a run     *)
(* that returned Changes made every call of the list and none failed.      *)
(***************************************************************************)
\* The calls Sync is to make for the changes c, in order.
Planned(c) ==
    [k \in 1..Len(c.Deletes) |-> [op |-> "remove", ev |-> c.Deletes[k]]]
        \o [k \in 1..Len(c.Updates) |-> [op |-> "update", ev |-> c.Updates[k]]]
        \o [k \in 1..Len(c.Adds) |-> [op |-> "add", ev |-> c.Adds[k]]]

\* The calls Sync made, in order, their outcome apart.
Attempted == [k \in 1..Len(calls) |-> [op |-> calls[k].op, ev |-> calls[k].ev]]

IsPrefix(a, b) == Len(a) <= Len(b) /\ a = SubSeq(b, 1, Len(a))

\* The calls that returned an error.
Failed == {k \in 1..Len(calls) : calls[k].err}

\* The call the run is about to make.
NextCall ==
    [op |-> IF pc = "deletes" THEN "remove" ELSE IF pc = "updates" THEN "update" ELSE "add",
     ev |-> IF pc = "deletes" THEN changes.Deletes[idx]
            ELSE IF pc = "updates" THEN changes.Updates[idx]
            ELSE changes.Adds[idx]]

C12_SequentialAbortOnFirstFailure ==
    /\ IsPrefix(Attempted, Planned(changes))
    /\ pc \in {"fetch", "ops"} => calls = <<>>
    /\ pc \in {"deletes", "updates", "adds"} =>
          /\ Failed = {}
          /\ Len(calls) < Len(Planned(changes))
          /\ Planned(changes)[Len(calls) + 1] = NextCall
    /\ pc = "return" => (Failed = {} /\ Attempted = Planned(changes))
    /\ (pc = "idle" /\ result = "changes") =>
          (Failed = {} /\ Attempted = Planned(changes))
    /\ (pc = "idle" /\ result = "error") =>
          (calls = <<>> /\ changes = NoChanges) \/ Failed = {Len(calls)}
    /\ Failed # {} => (pc = "idle" /\ result = "error")

\* A run that removed an event, then failed in an update or an add with a
\* call still to make, and returned the error.
C12_Witness ==
    /\ pc = "idle"
    /\ result = "error"
    /\ Len(calls) >= 2
    /\ calls[1].op = "remove"
    /\ calls[Len(calls)].op # "remove"
    /\ Failed = {Len(calls)}
    /\ Len(calls) < Len(Planned(changes))

(***************************************************************************)
(* C13.  A failed fetch is fatal: when c.fetch has returned an error, Sync *)
(* does not reconcile, makes no call of c.remove, c.update or c.add, and   *)
(* returns an error.                                                       *)
(***************************************************************************)
C13_FailedFetchIsFatal ==
    fetchErr =>
        /\ ~Computed
        /\ changes = NoChanges
        /\ calls = <<>>
        /\ pc = "idle" => result = "error"

====
